---- MODULE Spec2Model ----
(***************************************************************************)
(* Model of main.py of AI-Powered-Meeting-Summarizer: the pipeline         *)
(* transcribe_and_summarize (ffmpeg -> whisper.cpp -> Ollama), run by      *)
(* concurrent invocations over one filesystem, the stream consumer         *)
(* run_ollama_summary, and the model catalog (list_whisper_models,         *)
(* list_ollama_models).                                                    *)
(*                                                                         *)
(* Python str values are sequences of tokens (a path "a.mp3" is            *)
(* <<"a", ".", "mp3">>, a text "a b" is <<"a", " ", "b">>), so that        *)
(* os.path.splitext, string concatenation and str.strip are computed.      *)
(***************************************************************************)
EXTENDS Integers, Sequences, FiniteSets, TLC

\* The request threads that run transcribe_and_summarize concurrently; a thread
\* takes its next request once its last invocation has ended.
Invocations == { "t1", "t2" }

\* Number of requests served in one run of the model.
MaxCalls == 2

\* Python None, kept apart from every str value.
NoneVal == <<"<None>">>

\* Python truthiness of a str-or-None value: None and "" are falsy.
Truthy(v) == v # NoneVal /\ v # <<>>

\* str(v) as an f-string renders it.
Format(v) == IF v = NoneVal THEN <<"None">> ELSE v

----------------------------------------------------------------------------
\* Paths and the filesystem

RECURSIVE LastDot(_, _)
\* Index of the last "." of p at or before k, 0 when there is none.
LastDot(p, k) ==
    IF k = 0 THEN 0
    ELSE IF p[k] = "." THEN k
    ELSE LastDot(p, k - 1)

\* os.path.splitext(p): <<root, ext>>, split at the last dot; a leading dot
\* does not start an extension.
splitext(p) ==
    LET k == LastDot(p, Len(p))
    IN  IF k > 1 THEN <<SubSeq(p, 1, k - 1), SubSeq(p, k, Len(p))>>
        ELSE <<p, <<>>>>

\* preprocess_audio, line 48: the path of the normalized audio.
CleanPath(file_path) == splitext(file_path)[1] \o <<"_clean", ".", "wav">>

\* transcribe_and_summarize, line 67: the fixed transcript path.
transcript_output == <<"transcript", ".", "txt">>

\* WHISPER_MODELS_DIR listing: the model artifacts present on disk.
ModelFiles == { <<"ggml-", "base", ".", "bin">> }

\* whisper_cmd, line 69: the artifact path given to -m.
ModelArtifact(whisper_model) == <<"ggml-">> \o Format(whisper_model) \o <<".", "bin">>

\* Filesystem contents are token sequences too; a path with no file maps to Absent.
Absent == <<"<absent>">>

\* The caller-supplied audio files (AudioAsset); "" and None are the absent input.
AudioFiles ==
    { <<"a", ".", "mp3">>, <<"a", ".", "wav">>, <<"b", ".", "mp3">> }

AudioInputs == AudioFiles \cup { NoneVal, <<>> }

\* Caller-supplied audio files whose names meet the paths the pipeline derives:
\* a recording named like the transcript file, and one named like the
\* normalized audio of a.mp3.
DerivedNameFiles ==
    { <<"a", ".", "mp3">>, <<"a", "_clean", ".", "wav">>, <<"transcript", ".", "txt">> }

\* Every path the pipeline can name.
Paths ==
    LET inputs == AudioFiles \cup DerivedNameFiles
    IN  inputs \cup { CleanPath(p) : p \in inputs } \cup { transcript_output }

\* What the recording at path p holds, what ffmpeg makes of a recording, what
\* whisper.cpp prints for a waveform (nothing when it cannot read one).
Recording(p) == <<"audio-of">> \o p
Resampled(content) == <<"pcm-of">> \o content
Partial == <<"partial">>
Transcribed(content) == IF content = Absent THEN <<>> ELSE <<"text-of">> \o content

ContextInputs == { <<>>, <<"standup">> }
WhisperModelInputs == { <<>>, <<"base">> }
LlmModelInputs == { NoneVal, <<"llama3">> }

\* The argument tuples of the calls.  context reaches nothing but the prompt
\* (line 98), so the calls that get past the check of audio_path are explored
\* with one context, and the others with every one.
Calls ==
    { c \in [ audio_path : AudioInputs, context : ContextInputs,
              whisper_model : WhisperModelInputs, llm_model : LlmModelInputs ] :
        Truthy(c.audio_path) => c.context = <<"standup">> }

\* The calls on the files of DerivedNameFiles, with usable models.
DerivedNameCalls ==
    [ audio_path : DerivedNameFiles, context : { <<"standup">> },
      whisper_model : { <<"base">> }, llm_model : { <<"llama3">> } ]

\* Models the Ollama server at OLLAMA_URL serves.
ServedModels == { <<"llama3">> }

----------------------------------------------------------------------------
\* run_ollama_summary

\* The fixed user-facing messages (their leading emoji left out).
ValidationMsg == <<"Please upload an audio file.">>
FailPrefix == "Failed to generate summary: "
FailureMsg(e) == <<FailPrefix, e>>

Whitespace == { " ", "\n", "\t" }

RECURSIVE LStrip(_)
LStrip(t) == IF t # <<>> /\ Head(t) \in Whitespace THEN LStrip(Tail(t)) ELSE t

RECURSIVE RStrip(_)
RStrip(t) ==
    IF t # <<>> /\ t[Len(t)] \in Whitespace THEN RStrip(SubSeq(t, 1, Len(t) - 1)) ELSE t

\* str.strip()
Strip(t) == RStrip(LStrip(t))

\* dict.get(key, default)
Get(d, key, default) == IF key \in DOMAIN d THEN d[key] ELSE default

\* Lines 95-104 and 107: the request payload.
Payload(model, context, text) ==
    [ model  |-> model,
      prompt |-> <<"You are a helpful AI that summarizes meeting transcripts.", "Context: ">>
                 \o (IF Truthy(context) THEN context
                     ELSE <<"No additional context provided.">>)
                 \o <<"Transcript:">> \o text
                 \o <<"Write a clear and concise summary:">> ]

\* Mutant of ConsumeLine: json.loads guarded, a line it rejects is passed over.
MalformedSkipped(summary, line) ==
    IF line.kind \in {"empty", "malformed"} THEN [summary |-> summary, ctl |-> "continue"]
    ELSE IF line.kind = "error" THEN [summary |-> summary, ctl |-> "raise"]
    ELSE [ summary |-> summary \o Get(line.data, "response", <<>>),
           ctl |-> IF Get(line.data, "done", FALSE) THEN "break" ELSE "continue" ]

\* Mutant of ConsumeLine: no break on the done flag.
DoneIgnored(summary, line) ==
    IF line.kind = "empty" THEN [summary |-> summary, ctl |-> "continue"]
    ELSE IF line.kind \in {"malformed", "error"} THEN [summary |-> summary, ctl |-> "raise"]
    ELSE [ summary |-> summary \o Get(line.data, "response", <<>>), ctl |-> "continue" ]

\* Lines 114-119, one pass of the loop body over one item that iter_lines
\* yields: the summary so far and what the loop does next.  An item of kind
\* "empty" is an empty line, "malformed" a line json.loads rejects, "error" a
\* failure of the read itself, "json" a fragment with its decoded object.
ConsumeLine(summary, line) ==
    IF line.kind = "empty" THEN [summary |-> summary, ctl |-> "continue"]
    ELSE IF line.kind \in {"malformed", "error"} THEN [summary |-> summary, ctl |-> "raise"]
    ELSE [ summary |-> summary \o Get(line.data, "response", <<>>),
           ctl |-> IF Get(line.data, "done", FALSE) THEN "break" ELSE "continue" ]

\* The exception requests.post or raise_for_status (lines 110-111) raises for
\* a response that is no stream.
StatusError(status) ==
    CASE status = "conn_error" -> "ConnectionError"
      [] status = "timeout" -> "Timeout"
      [] OTHER -> "HTTPError"

\* Mutant of ExceptClause: no except clause, the exception leaves the function.
ExceptReraises(summary, e) == [raised |-> TRUE, result |-> NoneVal]

\* Mutant of ExceptClause: the text accumulated so far is returned with the
\* failure message.
ExceptKeepsPartial(summary, e) == [raised |-> FALSE, result |-> summary \o <<FailPrefix, e>>]

\* Lines 121-122: `except Exception as e` with the local summary as it stands:
\* the exception is caught and the failure message returned.
ExceptClause(summary, e) == [raised |-> FALSE, result |-> FailureMsg(e)]

\* What the except clause (line 121) formats for the item that raised.
ErrorOf(line) == IF line.kind = "malformed" THEN "JSONDecodeError" ELSE "ChunkedEncodingError"

RECURSIVE IterLines(_, _, _)
\* Lines 113-122 from item k on, with `summary` accumulated so far.
IterLines(lines, k, summary) ==
    IF k > Len(lines) THEN Strip(summary)
    ELSE LET r == ConsumeLine(summary, lines[k])
         IN  IF r.ctl = "raise" THEN FailureMsg(ErrorOf(lines[k]))
             ELSE IF r.ctl = "break" THEN Strip(r.summary)
             ELSE IterLines(lines, k + 1, r.summary)

\* Lines 109-122: the summary, or the failure message, for the server's
\* response resp = [status, lines].
run_ollama_summary(resp) ==
    IF resp.status # "ok" THEN FailureMsg(StatusError(resp.status))
    ELSE IterLines(resp.lines, 1, <<>>)

----------------------------------------------------------------------------
\* transcribe_and_summarize, run by each request thread

VARIABLES
    pc,             \* where each thread's invocation stands
    audio_path,     \* the four arguments of the invocation
    context,
    whisper_model,
    llm_model,
    wav_file,       \* local of line 64, NoneVal outside its lifetime
    transcript,     \* local of line 77, likewise
    summary,        \* local of line 81, likewise
    result,         \* the pair returned to the caller, <<>> before the return
    exc,            \* the exception that left the function, "" when none
    log,            \* what the invocation did, in order
    removed,        \* how many files the invocation's os.remove deleted
    calls,          \* requests taken so far
    fs              \* the filesystem: path -> content, or Absent

pvars == << pc, audio_path, context, whisper_model, llm_model, wav_file,
            transcript, summary, result, exc, log, removed, calls, fs >>

args == << audio_path, context, whisper_model, llm_model >>

\* The responses the generation endpoint gives in the pipeline runs.
PipelineResponses ==
    { [status |-> "conn_error", lines |-> <<>>],
      [status |-> "http_error", lines |-> <<>>],
      [status |-> "ok",
       lines  |-> << [kind |-> "json", data |-> [response |-> <<"Hel">>, done |-> FALSE]],
                     [kind |-> "json", data |-> [response |-> <<"lo">>, done |-> FALSE]],
                     [kind |-> "json", data |-> [response |-> <<>>, done |-> TRUE]] >>],
      [status |-> "ok",
       lines  |-> << [kind |-> "json", data |-> [response |-> <<"Hel">>, done |-> FALSE]],
                     [kind |-> "error"] >>] }

\* The server answers a request for a model it does not serve with an error
\* status.
ServerResponses(payload) ==
    IF payload.model \in ServedModels THEN PipelineResponses
    ELSE { r \in PipelineResponses : r.status # "ok" }

\* Whether run_ollama_summary took its except clause on resp.
SummaryFailed(resp) == run_ollama_summary(resp)[1] = FailPrefix

\* The state of a run of run_ollama_summary followed item by item (below).
VARIABLES
    o_pc,           \* "idle", "iter" (inside the for loop), "returned", "raised"
    o_resp,         \* the server's response to the POST of line 110
    taken,          \* how many items the loop has taken from iter_lines
    o_summary,      \* the local summary of lines 112-120
    o_result        \* what run_ollama_summary returned, NoneVal before

ovars == << o_pc, o_resp, taken, o_summary, o_result >>

\* State of the model catalog: the models directory and one caller of each
\* of list_whisper_models and list_ollama_models.
VARIABLES
    models_dir,     \* WHISPER_MODELS_DIR: whether it exists, and its entries
    w_calls,        \* how many times list_whisper_models was called
    w_listing,      \* what os.listdir returned to the last call
    w_models,       \* what the last call returned, NoneVal before
    w_prev,         \* what the call before it returned, NoneVal before
    l_pc,           \* list_ollama_models: "idle", "waiting", "returned", "raised"
    l_requests,     \* how many GET requests it has issued
    l_res,          \* the server's response to GET /api/tags
    l_models        \* what it returned, NoneVal before

cvars == << models_dir, w_calls, w_listing, w_models, w_prev,
            l_pc, l_requests, l_res, l_models >>

PInitOn(files) ==
    /\ pc = [i \in Invocations |-> "idle"]
    /\ audio_path = [i \in Invocations |-> NoneVal]
    /\ context = [i \in Invocations |-> NoneVal]
    /\ whisper_model = [i \in Invocations |-> NoneVal]
    /\ llm_model = [i \in Invocations |-> NoneVal]
    /\ wav_file = [i \in Invocations |-> NoneVal]
    /\ transcript = [i \in Invocations |-> NoneVal]
    /\ summary = [i \in Invocations |-> NoneVal]
    /\ result = [i \in Invocations |-> <<>>]
    /\ exc = [i \in Invocations |-> ""]
    /\ log = [i \in Invocations |-> <<>>]
    /\ removed = [i \in Invocations |-> 0]
    /\ calls = 0
    /\ fs = [p \in Paths |-> IF p \in files THEN Recording(p) ELSE Absent]

PInit == PInitOn(AudioFiles)

\* The progress object of line 62 is taken to do what the code uses it for:
\* entering the with block succeeds and each call reports one checkpoint.

\* The frame of transcribe_and_summarize is left: its locals are gone.
DropLocals(i) ==
    /\ wav_file' = [wav_file EXCEPT ![i] = NoneVal]
    /\ transcript' = [transcript EXCEPT ![i] = NoneVal]
    /\ summary' = [summary EXCEPT ![i] = NoneVal]

\* An exception leaves transcribe_and_summarize: nothing in it catches one.
Raise(i, e, events) ==
    /\ pc' = [pc EXCEPT ![i] = "raised"]
    /\ exc' = [exc EXCEPT ![i] = e]
    /\ log' = [log EXCEPT ![i] = @ \o events]
    /\ result' = result
    /\ DropLocals(i)

\* Mutant of AudioMissing: `if audio_path is None`.
AudioIsNone(a) == a = NoneVal

\* Lines 59-60: the guard on audio_path.
AudioMissing(a) == ~Truthy(a)

\* Lines 57-64 and 48-50: the call, the check of audio_path, the first
\* checkpoint, and preprocess_audio up to the start of ffmpeg.
Call(i, c) ==
    /\ calls' = calls + 1
    /\ audio_path' = [audio_path EXCEPT ![i] = c.audio_path]
    /\ context' = [context EXCEPT ![i] = c.context]
    /\ whisper_model' = [whisper_model EXCEPT ![i] = c.whisper_model]
    /\ llm_model' = [llm_model EXCEPT ![i] = c.llm_model]
    /\ IF AudioMissing(c.audio_path)
       THEN /\ pc' = [pc EXCEPT ![i] = "returned"]
            /\ result' = [result EXCEPT ![i] = <<ValidationMsg, NoneVal>>]
            /\ log' = [log EXCEPT ![i] = <<>>]
       ELSE /\ pc' = [pc EXCEPT ![i] = "ffmpeg"]
            /\ result' = [result EXCEPT ![i] = <<>>]
            /\ log' = [log EXCEPT ![i] = <<"progress 0", "ffmpeg start">>]
    /\ exc' = [exc EXCEPT ![i] = ""]
    /\ removed' = [removed EXCEPT ![i] = 0]
    /\ UNCHANGED << wav_file, transcript, summary, fs, ovars, cvars >>

\* Thread i is free to serve a call, and one of the MaxCalls calls is left.
Free(i) == pc[i] \in {"idle", "returned", "raised"} /\ calls < MaxCalls

\* A call with any of the argument tuples of Calls.
Invoke(i) ==
    /\ Free(i)
    /\ \E c \in Calls : Call(i, c)

\* A call on one of the files of DerivedNameFiles.
InvokeDerivedName(i) ==
    /\ Free(i)
    /\ \E c \in DerivedNameCalls : Call(i, c)

\* Mutant of CalledProcessError: subprocess.run without check=True.
CheckOff(code) == FALSE

\* Lines 50 and 74: subprocess.run(..., check=True) raises CalledProcessError
\* when the process exits non-zero.
CalledProcessError(code) == code # 0

\* Lines 50-51, 64-74: ffmpeg exits.  Exit code 0 needs a readable input and
\* leaves the output written (-y overwrites); a failing ffmpeg may leave a
\* partial output behind.  Unless the exit code raises, preprocess_audio
\* returns, the second checkpoint is reported, and the shell opens the redirect
\* target of whisper_cmd, truncating it, and starts whisper.cpp.
FfmpegExit(i) ==
    /\ pc[i] = "ffmpeg"
    /\ LET output == CleanPath(audio_path[i])
       IN  \E code \in {0, 1}, wrote \in BOOLEAN :
            LET written == IF code = 0 THEN [fs EXCEPT ![output] = Resampled(fs[audio_path[i]])]
                           ELSE IF wrote THEN [fs EXCEPT ![output] = Partial]
                           ELSE fs
                event == IF code = 0 THEN "ffmpeg exit 0" ELSE "ffmpeg exit 1"
            IN  /\ code = 0 => wrote /\ fs[audio_path[i]] # Absent
                /\ IF CalledProcessError(code)
                   THEN /\ fs' = written
                        /\ Raise(i, "CalledProcessError", <<event>>)
                   ELSE /\ fs' = [written EXCEPT ![transcript_output] = <<>>]
                        /\ wav_file' = [wav_file EXCEPT ![i] = output]
                        /\ pc' = [pc EXCEPT ![i] = "whisper"]
                        /\ log' = [log EXCEPT ![i] =
                                     @ \o <<event, "progress 0.4", "whisper start">>]
                        /\ UNCHANGED << transcript, summary, result, exc >>
    /\ UNCHANGED << args, removed, calls, ovars, cvars >>

\* Line 74: whisper.cpp exits.  Exit code 0 needs the model artifact; its
\* output, the transcription of what wav_file holds, is then in the transcript
\* file.
WhisperExit(i) ==
    /\ pc[i] = "whisper"
    /\ \E code \in {0, 1} :
        LET event == IF code = 0 THEN "whisper exit 0" ELSE "whisper exit 1"
        IN  /\ code = 0 => ModelArtifact(whisper_model[i]) \in ModelFiles
            /\ fs' = IF code = 0
                     THEN [fs EXCEPT ![transcript_output] = Transcribed(fs[wav_file[i]])]
                     ELSE fs
            /\ IF CalledProcessError(code)
               THEN Raise(i, "CalledProcessError", <<event>>)
               ELSE /\ pc' = [pc EXCEPT ![i] = "open"]
                    /\ log' = [log EXCEPT ![i] = @ \o <<event>>]
                    /\ UNCHANGED << wav_file, transcript, summary, result, exc >>
    /\ UNCHANGED << args, removed, calls, ovars, cvars >>

\* Lines 76-81: the transcript file is read back; then the third checkpoint
\* and the POST to /api/generate.  open/read raise when the file is missing or
\* cannot be read or decoded.
ReadTranscript(i) ==
    /\ pc[i] = "open"
    /\ \E ok \in BOOLEAN :
        IF ok
        THEN /\ fs[transcript_output] # Absent
             /\ transcript' = [transcript EXCEPT ![i] = fs[transcript_output]]
             /\ pc' = [pc EXCEPT ![i] = "summarize"]
             /\ log' = [log EXCEPT ![i] = @ \o <<"read ok", "progress 0.7", "post">>]
             /\ UNCHANGED << wav_file, summary, result, exc >>
        ELSE Raise(i, "OSError", <<"read failed">>)
    /\ UNCHANGED << args, removed, calls, fs, ovars, cvars >>

\* Lines 81-83: the server answers the request, run_ollama_summary returns
\* (it never raises), then the last checkpoint.
Summarize(i) ==
    /\ pc[i] = "summarize"
    /\ \E resp \in ServerResponses(Payload(llm_model[i], context[i], transcript[i])) :
        /\ summary' = [summary EXCEPT ![i] = run_ollama_summary(resp)]
        /\ log' = [log EXCEPT ![i] =
                     @ \o << IF SummaryFailed(resp) THEN "summary failed" ELSE "summary ok",
                             "progress 1" >>]
    /\ pc' = [pc EXCEPT ![i] = "cleanup"]
    /\ UNCHANGED << args, wav_file, transcript, result, exc, removed, calls, fs, ovars, cvars >>

\* Mutant of Cleanup: a missing file is tolerated and the pair is returned.
CleanupGuarded(i) ==
    /\ pc[i] = "cleanup"
    /\ fs' = [fs EXCEPT ![wav_file[i]] = Absent]
    /\ removed' = [removed EXCEPT ![i] = IF fs[wav_file[i]] # Absent THEN @ + 1 ELSE @]
    /\ result' = [result EXCEPT ![i] = <<summary[i], transcript_output>>]
    /\ pc' = [pc EXCEPT ![i] = "returned"]
    /\ log' = [log EXCEPT ![i] =
                 @ \o << IF fs[wav_file[i]] # Absent THEN "remove ok" ELSE "remove failed" >>]
    /\ exc' = exc
    /\ DropLocals(i)
    /\ UNCHANGED << args, calls, ovars, cvars >>

\* Lines 86-87: os.remove(wav_file), which raises FileNotFoundError when the
\* file is gone, and the return of the pair.
Cleanup(i) ==
    /\ pc[i] = "cleanup"
    /\ IF fs[wav_file[i]] # Absent
       THEN /\ fs' = [fs EXCEPT ![wav_file[i]] = Absent]
            /\ removed' = [removed EXCEPT ![i] = @ + 1]
            /\ result' = [result EXCEPT ![i] = <<summary[i], transcript_output>>]
            /\ pc' = [pc EXCEPT ![i] = "returned"]
            /\ log' = [log EXCEPT ![i] = @ \o <<"remove ok">>]
            /\ exc' = exc
            /\ DropLocals(i)
       ELSE /\ fs' = fs
            /\ removed' = removed
            /\ Raise(i, "FileNotFoundError", <<"remove failed">>)
    /\ UNCHANGED << args, calls, ovars, cvars >>

----------------------------------------------------------------------------
\* run_ollama_summary, item by item

\* Longest stream explored.
MaxLines == 3

\* The items iter_lines can yield.  A fragment may lack either key.
StreamItems ==
    { [kind |-> "empty"], [kind |-> "malformed"], [kind |-> "error"],
      [kind |-> "json", data |-> [response |-> <<"Hel">>, done |-> FALSE]],
      [kind |-> "json", data |-> [response |-> <<" ">>, done |-> FALSE]],
      [kind |-> "json", data |-> [response |-> <<"lo">>]],
      [kind |-> "json", data |-> [response |-> <<>>, done |-> TRUE]],
      [kind |-> "json", data |-> [response |-> <<"lo">>, done |-> TRUE]],
      [kind |-> "json", data |-> [done |-> TRUE]] }

Streams == UNION { [1..n -> StreamItems] : n \in 0..MaxLines }

Responses ==
    { [status |-> st, lines |-> <<>>] : st \in {"conn_error", "timeout", "http_error"} }
    \cup { [status |-> "ok", lines |-> l] : l \in Streams }

OInit ==
    /\ o_pc = "idle"
    /\ o_resp = [status |-> "none", lines |-> <<>>]
    /\ taken = 0
    /\ o_summary = <<>>
    /\ o_result = NoneVal

\* Lines 110-112: the POST and raise_for_status; either raises into the
\* except clause of line 121.
Post ==
    /\ o_pc = "idle"
    /\ \E r \in Responses :
        /\ o_resp' = r
        /\ IF r.status = "ok"
           THEN o_pc' = "iter" /\ o_result' = o_result
           ELSE LET x == ExceptClause(o_summary, StatusError(r.status))
                IN  /\ o_pc' = IF x.raised THEN "raised" ELSE "returned"
                    /\ o_result' = x.result
    /\ UNCHANGED << taken, o_summary, pvars, cvars >>

\* Lines 113-122: the loop takes the next item.
NextLine ==
    /\ o_pc = "iter"
    /\ taken < Len(o_resp.lines)
    /\ LET line == o_resp.lines[taken + 1]
           r == ConsumeLine(o_summary, line)
       IN  /\ taken' = taken + 1
           /\ o_summary' = r.summary
           /\ IF r.ctl = "continue" THEN o_pc' = "iter" /\ o_result' = o_result
              ELSE IF r.ctl = "break"
              THEN o_pc' = "returned" /\ o_result' = Strip(r.summary)
              ELSE LET x == ExceptClause(o_summary, ErrorOf(line))
                   IN  /\ o_pc' = IF x.raised THEN "raised" ELSE "returned"
                       /\ o_result' = x.result
    /\ UNCHANGED << o_resp, pvars, cvars >>

\* Mutant of EndOfStream: a stream that ends is reported as a failure.
EndOfStreamFails ==
    /\ o_pc = "iter"
    /\ taken = Len(o_resp.lines)
    /\ o_pc' = "returned"
    /\ o_result' = FailureMsg("IncompleteRead")
    /\ UNCHANGED << o_resp, taken, o_summary, pvars, cvars >>

\* Lines 113 and 120: the stream has ended, the loop is left.
EndOfStream ==
    /\ o_pc = "iter"
    /\ taken = Len(o_resp.lines)
    /\ o_pc' = "returned"
    /\ o_result' = Strip(o_summary)
    /\ UNCHANGED << o_resp, taken, o_summary, pvars, cvars >>

----------------------------------------------------------------------------
\* The model catalog: list_whisper_models and list_ollama_models

\* Most entries a models directory holds.
MaxFiles == 3

\* Most calls of list_whisper_models on the directory.
MaxListCalls == 2

\* Most entries in the server's listing.
MaxModels == 3

\* Entries a models directory can hold: artifacts of allow-listed tiers, one
\* in capitals, an artifact of no tier, whisper.cpp's test model, a .bin file
\* without the ggml- prefix, and an unfinished download.
DirEntries ==
    { <<"ggml-", "base", ".", "bin">>,
      <<"ggml-", "small", ".", "en", ".", "bin">>,
      <<"ggml-", "large", "-v3", ".", "bin">>,
      <<"ggml-", "Medium", ".", "bin">>,
      <<"ggml-", "tiny", ".", "bin">>,
      <<"for-tests-", "ggml-", "base", ".", "bin">>,
      <<"base", ".", "bin">>,
      <<"ggml-", "small", ".", "bin", ".", "part">> }

Dirs ==
    { [exists |-> FALSE, files |-> {}] }
    \cup { [exists |-> TRUE, files |-> F] :
               F \in { G \in SUBSET DirEntries : Cardinality(G) <= MaxFiles } }

\* os.listdir returns the entries in arbitrary order.
ListDir(files) ==
    { l \in [1..Cardinality(files) -> files] :
        \A j, k \in 1..Cardinality(files) : j # k => l[j] # l[k] }

\* Line 34: f.endswith(".bin")
EndsWithBin(f) == Len(f) >= 2 /\ SubSeq(f, Len(f) - 1, Len(f)) = <<".", "bin">>

\* str.replace(old, ""), old being one token: every occurrence goes.
Replace(str, old) == SelectSeq(str, LAMBDA t : t # old)

\* Line 35: the name made of a file name.
ModelName(f) == Replace(splitext(f)[1], "ggml-")

\* str.lower()
Lower(str) == [k \in DOMAIN str |-> IF str[k] = "Medium" THEN "medium" ELSE str[k]]

\* `v in name`: v is a substring of name.
In(v, name) == \E k \in 1..(Len(name) - Len(v) + 1) : SubSeq(name, k, k + Len(v) - 1) = v

\* Line 33
valid == { <<"base">>, <<"small">>, <<"medium">>, <<"large">>, <<"large", "-v3">> }

RECURSIVE Scan(_, _)
\* Lines 32-37: the list models after the loop has gone through listing[1..k].
Scan(listing, k) ==
    IF k = 0 THEN <<>>
    ELSE LET f == listing[k]
             name == ModelName(f)
         IN  IF EndsWithBin(f) /\ \E v \in valid : In(v, Lower(name))
             THEN Append(Scan(listing, k - 1), name)
             ELSE Scan(listing, k - 1)

\* The tokens in the order of their first differing code points.
CodePoints ==
    << "-v3", ".", "Medium", "base", "bin", "en", "for-tests-", "ggml-", "large",
       "medium", "part", "small", "tiny" >>

Rank(t) == CHOOSE k \in DOMAIN CodePoints : CodePoints[k] = t

RECURSIVE Before(_, _, _)
\* Python's a < b on strings equal up to position k.
Before(a, b, k) ==
    IF k > Len(a) THEN k <= Len(b)
    ELSE IF k > Len(b) THEN FALSE
    ELSE IF a[k] = b[k] THEN Before(a, b, k + 1)
    ELSE Rank(a[k]) < Rank(b[k])

RECURSIVE sorted(_)
\* sorted() of a set of strings.
sorted(S) ==
    IF S = {} THEN <<>>
    ELSE LET least == CHOOSE x \in S : \A y \in S \ {x} : Before(x, y, 1)
         IN  <<least>> \o sorted(S \ {least})

\* Lines 29-40, listing being what os.listdir returns.
list_whisper_models(dir, listing) ==
    IF ~dir.exists THEN <<>>
    ELSE LET models == Scan(listing, Len(listing))
         IN  sorted({ models[k] : k \in DOMAIN models })

\* The entries of the listing GET /api/tags returns; one lacks the key model.
ModelEntries ==
    { [model |-> <<"llama3">>], [model |-> <<"mistral">>], [model |-> <<"phi3">>],
      [name |-> <<"phi3">>] }

\* Response bodies: no JSON, JSON that is no object, and objects with and
\* without the key models.
TagsBodies ==
    { [kind |-> "malformed"], [kind |-> "list"],
      [kind |-> "object", data |-> [error |-> <<"busy">>]] }
    \cup { [kind |-> "object", data |-> [models |-> l]] :
               l \in UNION { [1..n -> ModelEntries] : n \in 0..MaxModels } }

TagsResponses ==
    { [status |-> st, body |-> [kind |-> "none"]] :
        st \in {"conn_error", "timeout", "http_error"} }
    \cup { [status |-> "ok", body |-> b] : b \in TagsBodies }

\* The exception lines 20-23 raise on a response, "" when they raise none:
\* requests.get and raise_for_status, res.json(), data.get on what is no
\* dict, m["model"] on an entry without the key.
TagsError(res) ==
    IF res.status # "ok" THEN StatusError(res.status)
    ELSE IF res.body.kind = "malformed" THEN "JSONDecodeError"
    ELSE IF res.body.kind = "list" THEN "AttributeError"
    ELSE LET models == Get(res.body.data, "models", <<>>)
         IN  IF \E k \in DOMAIN models : "model" \notin DOMAIN models[k]
             THEN "KeyError" ELSE ""

\* Mutant of TagsExcept: only the errors of requests are caught.
TagsExceptRequestsOnly(e) ==
    IF e \in {"ConnectionError", "Timeout", "HTTPError"}
    THEN [raised |-> FALSE, models |-> <<>>]
    ELSE [raised |-> TRUE, models |-> NoneVal]

\* Lines 24-26: `except Exception as e`, the empty list is returned.
TagsExcept(e) == [raised |-> FALSE, models |-> <<>>]

\* Lines 19-26 on the response to the request of line 20.
list_ollama_models(res) ==
    IF TagsError(res) # "" THEN TagsExcept(TagsError(res))
    ELSE LET models == Get(res.body.data, "models", <<>>)
         IN  [raised |-> FALSE, models |-> [k \in DOMAIN models |-> models[k].model]]

CInitOn(dir) ==
    /\ models_dir = dir
    /\ w_calls = 0
    /\ w_listing = <<>>
    /\ w_models = NoneVal
    /\ w_prev = NoneVal
    /\ l_pc = "idle"
    /\ l_requests = 0
    /\ l_res = [status |-> "none"]
    /\ l_models = NoneVal

\* Lines 29-40: a call of list_whisper_models.
ListWhisperModels ==
    /\ w_calls < MaxListCalls
    /\ w_calls' = w_calls + 1
    /\ \E listing \in ListDir(models_dir.files) :
        /\ w_listing' = listing
        /\ w_models' = list_whisper_models(models_dir, listing)
    /\ w_prev' = w_models
    /\ UNCHANGED << models_dir, l_pc, l_requests, l_res, l_models, pvars, ovars >>

\* Line 20: list_ollama_models is called and issues its request.
GetTags ==
    /\ l_pc = "idle"
    /\ l_pc' = "waiting"
    /\ l_requests' = l_requests + 1
    /\ \E res \in TagsResponses : l_res' = res
    /\ UNCHANGED << models_dir, w_calls, w_listing, w_models, w_prev, l_models, pvars, ovars >>

\* Lines 20-26: the response (or the failure to get one) is there.
TagsReturn ==
    /\ l_pc = "waiting"
    /\ LET x == list_ollama_models(l_res)
       IN  /\ l_pc' = IF x.raised THEN "raised" ELSE "returned"
           /\ l_models' = x.models
    /\ UNCHANGED << models_dir, w_calls, w_listing, w_models, w_prev, l_requests, l_res,
                    pvars, ovars >>

----------------------------------------------------------------------------
\* Specifications

vars == << pvars, ovars, cvars >>

Init == PInit /\ OInit /\ CInitOn([exists |-> TRUE, files |-> ModelFiles])

\* The pipeline: the request threads serve MaxCalls calls.
Next ==
    \E i \in Invocations :
        \/ Invoke(i)
        \/ FfmpegExit(i)
        \/ WhisperExit(i)
        \/ ReadTranscript(i)
        \/ Summarize(i)
        \/ Cleanup(i)

Spec == Init /\ [][Next]_vars

\* The pipeline on caller files whose names meet the derived paths.
DerivedNameInit ==
    PInitOn(DerivedNameFiles) /\ OInit /\ CInitOn([exists |-> TRUE, files |-> ModelFiles])

DerivedNameNext ==
    \E i \in Invocations :
        \/ InvokeDerivedName(i)
        \/ FfmpegExit(i)
        \/ WhisperExit(i)
        \/ ReadTranscript(i)
        \/ Summarize(i)
        \/ Cleanup(i)

DerivedNameSpec == DerivedNameInit /\ [][DerivedNameNext]_vars

\* list_whisper_models over every models directory of up to MaxFiles entries.
ListWhisperInit == PInit /\ OInit /\ \E dir \in Dirs : CInitOn(dir)

ListWhisperNext == ListWhisperModels

ListWhisperSpec == ListWhisperInit /\ [][ListWhisperNext]_vars

\* list_ollama_models over every response of the server.
ListOllamaNext == GetTags \/ TagsReturn

ListOllamaSpec == Init /\ [][ListOllamaNext]_vars

\* One run of run_ollama_summary, over every response.
SummaryNext == Post \/ NextLine \/ EndOfStream

SummarySpec == Init /\ [][SummaryNext]_vars

----------------------------------------------------------------------------
\* Properties of transcribe_and_summarize (checked under Spec)

\* The invocation of thread i logged event e.
Did(i, e) == \E k \in DOMAIN log[i] : log[i][k] = e

\* Position of the first occurrence of e in the log of i, 0 when there is none.
At(i, e) == IF Did(i, e) THEN CHOOSE k \in DOMAIN log[i] :
                                  log[i][k] = e /\ \A m \in 1..(k - 1) : log[i][m] # e
            ELSE 0

\* The invocation of thread i has given control back to its caller.
Ended(i) == pc[i] \in {"returned", "raised"}

\* The events that start a stage's external call or touch a file.
StageEvents ==
    { "ffmpeg start", "whisper start", "read ok", "read failed", "post",
      "remove ok", "remove failed" }

\* C1: an invocation whose normalizer succeeded has deleted the normalized
\* audio exactly once by the time it gives control back, whichever way it
\* ends, and (no other call having been made) the file is gone.
C1_CleanupOnEveryExit ==
    \A i \in Invocations :
        Ended(i) /\ Did(i, "ffmpeg exit 0") =>
            /\ removed[i] = 1
            /\ calls = 1 => fs[CleanPath(audio_path[i])] = Absent

\* C2: stages are gated.  whisper.cpp is started only after ffmpeg exited 0;
\* the summarization request is posted only after whisper.cpp exited 0 and the
\* transcript was read, in that order; after a failed ffmpeg or whisper.cpp
\* nothing more is started by the invocation.
C2_StagesGated ==
    \A i \in Invocations :
        /\ Did(i, "whisper start") =>
              /\ Did(i, "ffmpeg exit 0")
              /\ At(i, "ffmpeg start") < At(i, "ffmpeg exit 0")
              /\ At(i, "ffmpeg exit 0") < At(i, "whisper start")
        /\ Did(i, "post") =>
              /\ Did(i, "whisper exit 0") /\ Did(i, "read ok")
              /\ At(i, "whisper start") < At(i, "whisper exit 0")
              /\ At(i, "whisper exit 0") < At(i, "read ok")
              /\ At(i, "read ok") < At(i, "post")
        /\ \A k \in DOMAIN log[i] :
              log[i][k] \in {"ffmpeg exit 1", "whisper exit 1"} =>
                  /\ k = Len(log[i])
                  /\ pc[i] = "raised"
        /\ Did(i, "ffmpeg exit 1") => ~Did(i, "whisper start") /\ ~Did(i, "post")
        /\ Did(i, "whisper exit 1") => ~Did(i, "read ok") /\ ~Did(i, "post")
        /\ pc[i] \in {"whisper", "open", "summarize", "cleanup"} =>
              wav_file[i] = CleanPath(audio_path[i])

\* C2 witness: one invocation has gone through all three stages while another
\* was stopped by a failing ffmpeg.
C2_Witness ==
    \E i, j \in Invocations :
        /\ Did(i, "post") /\ Did(i, "summary ok")
        /\ Did(j, "ffmpeg exit 1") /\ pc[j] = "raised"

\* C3: an invocation whose ffmpeg and whisper.cpp succeeded and whose
\* summarization failed returns normally with the failure message and the
\* transcript path; it never ends by raising.
C3_SummaryFailureReturnsTranscript ==
    \A i \in Invocations :
        Ended(i) /\ Did(i, "summary failed") =>
            /\ pc[i] = "returned"
            /\ Len(result[i]) = 2
            /\ result[i][1] # <<>> /\ result[i][1][1] = FailPrefix
            /\ result[i][2] = transcript_output
            /\ fs[transcript_output] # Absent

\* C4: a call without an audio path returns the validation message and no
\* transcript path at once, whatever the other arguments: no checkpoint, no
\* process, no request, no file touched.
C4_AbsentAudioReturnsAtOnce ==
    \A i \in Invocations :
        pc[i] # "idle" /\ ~Truthy(audio_path[i]) =>
            /\ pc[i] = "returned"
            /\ result[i] = <<ValidationMsg, NoneVal>>
            /\ log[i] = <<>>
            /\ removed[i] = 0
            /\ exc[i] = ""

\* C4 witness: calls with "" and with None as the audio path have returned,
\* one of them with no model selected either.
C4_Witness ==
    \E i, j \in Invocations :
        /\ pc[i] = "returned" /\ audio_path[i] = <<>>
        /\ whisper_model[i] = <<>> /\ llm_model[i] = NoneVal
        /\ pc[j] = "returned" /\ audio_path[j] = NoneVal /\ context[j] = <<>>

\* C5: after an invocation whose ffmpeg exited non-zero has ended, the
\* normalized-audio file does not exist (no other call having been made).
C5_NoLeftoverAfterFfmpegFailure ==
    \A i \in Invocations :
        Ended(i) /\ Did(i, "ffmpeg exit 1") /\ calls = 1 =>
            fs[CleanPath(audio_path[i])] = Absent

\* C6: every invocation ends by returning a pair (message or summary,
\* transcript path or none); no exception leaves it.
C6_NoExceptionEscapes ==
    \A i \in Invocations :
        Ended(i) => pc[i] = "returned" /\ exc[i] = "" /\ Len(result[i]) = 2

\* C7: an invocation given an audio path but an empty or absent model id
\* ends before any stage runs: it starts no process, posts no request and
\* touches no file.
C7_EmptyModelIdFailsFast ==
    \A i \in Invocations :
        /\ pc[i] # "idle"
        /\ Truthy(audio_path[i])
        /\ ~Truthy(whisper_model[i]) \/ ~Truthy(llm_model[i])
        => /\ Ended(i)
           /\ \A e \in StageEvents : ~Did(i, e)

\* C8: of two concurrent invocations with different audio paths, each sends
\* the summarizer the transcription of its own audio.
C8_InvocationsIsolated ==
    \A i, j \in Invocations :
        /\ i # j
        /\ pc[i] = "summarize"
        /\ pc[j] # "idle" /\ Truthy(audio_path[j])
        /\ audio_path[i] # audio_path[j]
        => transcript[i] = Transcribed(Resampled(Recording(audio_path[i])))

----------------------------------------------------------------------------
\* Properties of run_ollama_summary (checked under SummarySpec)

\* Index of the first fragment of lines whose done flag is true, 0 when no
\* fragment has one.
FirstDone(lines) ==
    LET done == { k \in DOMAIN lines :
                    lines[k].kind = "json" /\ Get(lines[k].data, "done", FALSE) }
    IN  IF done = {} THEN 0 ELSE CHOOSE k \in done : \A m \in done : k <= m

RECURSIVE Pieces(_, _)
\* The response pieces of the fragments among lines[1..k], joined in order.
Pieces(lines, k) ==
    IF k = 0 THEN <<>>
    ELSE Pieces(lines, k - 1)
         \o (IF lines[k].kind = "json" /\ "response" \in DOMAIN lines[k].data
             THEN lines[k].data.response ELSE <<>>)

\* lines without the items of the kinds in `kinds`.
Without(lines, kinds) == SelectSeq(lines, LAMBDA l : l.kind \notin kinds)

\* C9: on a stream of fragments one of which is flagged done, the loop stops
\* at the first such fragment, never taking a later one, and the result is
\* the trimmed concatenation, in order, of the pieces up to and including it.
C9_ConcatenatesUpToFirstDone ==
    LET lines == o_resp.lines
        d == FirstDone(lines)
    IN  /\ o_resp.status = "ok"
        /\ \A k \in DOMAIN lines : lines[k].kind = "json"
        /\ d # 0
        => /\ taken <= d
           /\ o_pc = "returned" => taken = d /\ o_result = Strip(Pieces(lines, d))

\* C9 witness: the fragments " ", "lo"+done, "Hel" have been answered with
\* "lo", the third fragment never taken.
C9_Witness ==
    /\ o_pc = "returned"
    /\ o_resp.status = "ok"
    /\ o_resp.lines = << [kind |-> "json", data |-> [response |-> <<" ">>, done |-> FALSE]],
                         [kind |-> "json", data |-> [response |-> <<"lo">>, done |-> TRUE]],
                         [kind |-> "json", data |-> [response |-> <<"Hel">>, done |-> FALSE]] >>
    /\ taken = 2
    /\ o_result = <<"lo">>

\* C10 as stated: empty and malformed lines are passed over, so the result
\* is that of the stream without them.
C10_EmptyAndMalformedSkipped ==
    o_pc = "returned" /\ o_resp.status = "ok" =>
        o_result = run_ollama_summary(
                       [o_resp EXCEPT !.lines = Without(@, {"empty", "malformed"})])

\* C10 amended: an empty line is passed over (it adds no text, the loop goes
\* on, and the result is that of the stream without the empty lines); a
\* malformed line the loop reaches ends the loop, and the result is the
\* failure message.
C10_EmptySkippedMalformedFails ==
    LET lines == o_resp.lines
    IN  /\ o_pc = "iter" /\ taken > 0 /\ lines[taken].kind = "empty" =>
              o_summary = Pieces(lines, taken - 1)
        /\ o_pc = "returned" /\ o_resp.status = "ok" =>
              /\ o_result = run_ollama_summary([o_resp EXCEPT !.lines = Without(@, {"empty"})])
              /\ taken > 0 /\ lines[taken].kind = "empty" => taken = Len(lines)
              /\ \A k \in 1..taken :
                    lines[k].kind = "malformed" =>
                        k = taken /\ o_result = FailureMsg("JSONDecodeError")

\* C10 witness: after an empty line and a fragment, a malformed line has ended
\* the run with the failure message.
C10_Witness ==
    /\ o_pc = "returned"
    /\ o_resp.status = "ok"
    /\ Len(o_resp.lines) = 3
    /\ o_resp.lines[1].kind = "empty"
    /\ o_resp.lines[2] = [kind |-> "json", data |-> [response |-> <<"Hel">>, done |-> FALSE]]
    /\ o_resp.lines[3].kind = "malformed"
    /\ taken = 3
    /\ o_result = FailureMsg("JSONDecodeError")

\* The failure the run has met: the exception of a response that is no
\* stream, or of the item that stopped the loop; "" when it has met none.
FailureMet ==
    IF o_resp.status \in {"conn_error", "timeout", "http_error"}
    THEN StatusError(o_resp.status)
    ELSE IF taken > 0 /\ o_resp.lines[taken].kind \in {"malformed", "error"}
    THEN ErrorOf(o_resp.lines[taken])
    ELSE ""

\* C11: run_ollama_summary never raises: once the request is made it is in
\* its loop or has returned a string, and when the connection, the status or
\* the read of the stream failed, what it returned is the failure message for
\* that failure.
C11_SummarizeNeverRaises ==
    /\ o_pc \in {"idle", "iter", "returned"}
    /\ o_pc = "returned" =>
          /\ o_result # NoneVal
          /\ FailureMet # "" => o_result = <<FailPrefix, FailureMet>>

\* C11 witness: the read failed after one fragment and the failure message was
\* returned.
C11_Witness ==
    /\ o_pc = "returned"
    /\ o_resp.status = "ok"
    /\ Len(o_resp.lines) = 2
    /\ o_resp.lines[1] = [kind |-> "json", data |-> [response |-> <<"Hel">>, done |-> FALSE]]
    /\ o_resp.lines[2].kind = "error"
    /\ o_result = <<FailPrefix, "ChunkedEncodingError">>

\* The fragment that ends a completed stream.
DoneFragment == [kind |-> "json", data |-> [response |-> <<>>, done |-> TRUE]]

\* C16: when the stream ends with no read or decode error and no fragment
\* flagged done, the call returns the trimmed concatenation of all the pieces
\* received, which is no failure message and is what the same stream followed
\* by a done fragment gives.
C16_StreamWithoutDoneIsSuccess ==
    LET lines == o_resp.lines
    IN  /\ o_pc = "returned"
        /\ o_resp.status = "ok"
        /\ \A k \in DOMAIN lines : lines[k].kind \in {"json", "empty"}
        /\ FirstDone(lines) = 0
        => /\ taken = Len(lines)
           /\ o_result = Strip(Pieces(lines, Len(lines)))
           /\ o_result = <<>> \/ o_result[1] # FailPrefix
           /\ o_result = run_ollama_summary([o_resp EXCEPT !.lines = Append(lines, DoneFragment)])

\* C16 witness: two pieces, none flagged done, then the end of the stream.
C16_Witness ==
    /\ o_pc = "returned"
    /\ o_resp.status = "ok"
    /\ o_resp.lines = << [kind |-> "json", data |-> [response |-> <<"Hel">>, done |-> FALSE]],
                         [kind |-> "json", data |-> [response |-> <<"lo">>]] >>
    /\ o_result = <<"Hel", "lo">>

\* The tokens of a string.
Tokens(str) == { str[k] : k \in DOMAIN str }

\* C17: what run_ollama_summary returns is either the trimmed text of the
\* pieces of a stream read without error, or the failure message of the error
\* met, which begins with the failure prefix and holds none of the text
\* accumulated before the error.
C17_TextOrFailureMessage ==
    LET lines == o_resp.lines
    IN  o_pc = "returned" =>
          IF FailureMet = ""
          THEN /\ o_result = Strip(Pieces(lines, taken))
               /\ o_result = <<>> \/ o_result[1] # FailPrefix
          ELSE /\ o_result = <<FailPrefix, FailureMet>>
               /\ Tokens(o_result) \cap Tokens(o_summary) = {}

\* C17 witness: two pieces were accumulated when a line failed to decode, and
\* the failure message alone was returned.
C17_Witness ==
    /\ o_pc = "returned"
    /\ o_summary = <<"Hel", "lo">>
    /\ taken = 3
    /\ o_resp.lines[3].kind = "malformed"
    /\ o_result = <<FailPrefix, "JSONDecodeError">>

\* The checkpoints in the order the code reports them, and their values in
\* tenths.
Checkpoints == << "progress 0", "progress 0.4", "progress 0.7", "progress 1" >>

Tenths(e) ==
    CASE e = "progress 0" -> 0
      [] e = "progress 0.4" -> 4
      [] e = "progress 0.7" -> 7
      [] e = "progress 1" -> 10

\* The checkpoints the invocation of thread i has reported, in order.
Reported(i) == SelectSeq(log[i], LAMBDA e : e \in Tokens(Checkpoints))

\* C12: within an invocation the checkpoints reported are a prefix of 0, 0.4,
\* 0.7, 1, so none is repeated or out of order and the values increase; each
\* is reported before the external call of its stage starts, the last one only
\* after run_ollama_summary returned; and after a failed ffmpeg or whisper.cpp
\* the invocation reports nothing more.
C12_CheckpointsInOrder ==
    \A i \in Invocations :
        LET rep == Reported(i)
        IN  /\ \E n \in 0..Len(Checkpoints) : rep = SubSeq(Checkpoints, 1, n)
            /\ \A k, m \in DOMAIN rep : k < m => Tenths(rep[k]) < Tenths(rep[m])
            /\ Did(i, "ffmpeg start") =>
                  Did(i, "progress 0") /\ At(i, "progress 0") < At(i, "ffmpeg start")
            /\ Did(i, "whisper start") =>
                  Did(i, "progress 0.4") /\ At(i, "progress 0.4") < At(i, "whisper start")
            /\ Did(i, "post") =>
                  Did(i, "progress 0.7") /\ At(i, "progress 0.7") < At(i, "post")
            /\ Did(i, "progress 1") =>
                  \E e \in {"summary ok", "summary failed"} :
                      /\ Did(i, e)
                      /\ At(i, "post") < At(i, e)
                      /\ At(i, e) < At(i, "progress 1")
            /\ \A k \in DOMAIN log[i] :
                  log[i][k] \in {"ffmpeg exit 1", "whisper exit 1"} =>
                      /\ pc[i] = "raised"
                      /\ \A m \in DOMAIN log[i] :
                            m > k => log[i][m] \notin Tokens(Checkpoints)

\* C12 witness: one invocation has reported all four checkpoints, another
\* stopped at the second one when whisper.cpp failed.
C12_Witness ==
    \E i, j \in Invocations :
        /\ Reported(i) = Checkpoints
        /\ Did(j, "whisper exit 1")
        /\ Reported(j) = << "progress 0", "progress 0.4" >>

\* C18: when the summary has been computed, the deletion of the normalized
\* audio is the last step of the invocation, after the last checkpoint; when
\* it succeeds the pair is returned, and when it fails the invocation raises
\* and delivers neither the summary nor the transcript path.
C18_CleanupLastAndFatal ==
    \A i \in Invocations :
        /\ pc[i] = "cleanup" =>
              /\ Did(i, "summary ok") \/ Did(i, "summary failed")
              /\ log[i][Len(log[i])] = "progress 1"
        /\ \A e \in {"remove ok", "remove failed"} :
              Did(i, e) =>
                  /\ At(i, e) = Len(log[i])
                  /\ At(i, "progress 1") = Len(log[i]) - 1
                  /\ Did(i, "summary ok") \/ Did(i, "summary failed")
        /\ Did(i, "remove ok") =>
              /\ pc[i] = "returned"
              /\ Len(result[i]) = 2 /\ result[i][2] = transcript_output
        /\ Did(i, "remove failed") =>
              /\ pc[i] = "raised"
              /\ exc[i] = "FileNotFoundError"
              /\ result[i] = <<>>

\* C18 witness: the summary was generated, the last checkpoint reported, and
\* the deletion failed because another invocation had deleted the file.
C18_Witness ==
    \E i, j \in Invocations :
        /\ Did(i, "summary ok") /\ Did(i, "remove failed")
        /\ pc[i] = "raised"
        /\ Did(j, "remove ok")

\* C13: the normalized-audio path derived from an input path is neither the
\* input path nor the transcript path, and when an invocation has given
\* control back its input file still holds the caller's recording and, if it
\* returned the transcript path, the transcript file exists.
C13_InputNeverWrittenOrDeleted ==
    /\ \A p \in AudioFiles \cup DerivedNameFiles :
          CleanPath(p) # p /\ CleanPath(p) # transcript_output
    /\ \A i \in Invocations :
          Ended(i) /\ Truthy(audio_path[i]) =>
              /\ fs[audio_path[i]] = Recording(audio_path[i])
              /\ pc[i] = "returned" => fs[transcript_output] # Absent

\* The model artifacts of allow-listed tiers in the directory, by canonical
\* name: the names n with a file ggml-<n>.bin, n holding a tier.
TierArtifacts(files) ==
    { SubSeq(f, 2, Len(f) - 2) :
        f \in { g \in files : /\ Len(g) > 3
                              /\ g[1] = "ggml-"
                              /\ EndsWithBin(g)
                              /\ \E v \in valid : In(v, Lower(SubSeq(g, 2, Len(g) - 2))) } }

\* C14: list_whisper_models returns, in strictly ascending order, exactly the
\* canonical names of the files ggml-<name>.bin of the directory whose name
\* holds an allow-listed tier; it returns the empty sequence when the
\* directory is missing, and the same sequence when called again.
C14_ListsExactlyTierArtifacts ==
    w_calls > 0 =>
        /\ \A j, k \in DOMAIN w_models : j < k => Before(w_models[j], w_models[k], 1)
        /\ { w_models[k] : k \in DOMAIN w_models } = TierArtifacts(models_dir.files)
        /\ ~models_dir.exists => w_models = <<>>
        /\ w_calls > 1 => w_models = w_prev

\* C15 helper: the response is a listing whose every entry names its model.
UsableListing(res) ==
    /\ res.status = "ok"
    /\ res.body.kind = "object"
    /\ "models" \in DOMAIN res.body.data
    /\ \A k \in DOMAIN res.body.data.models : "model" \in DOMAIN res.body.data.models[k]

\* C15: list_ollama_models never raises and issues one request only: when it
\* has returned, one request was issued; on a usable listing it returned the
\* model identifiers in the order of the listing, and otherwise (no
\* connection, timeout, error status, unusable body) the empty sequence.
C15_OneRequestNeverRaises ==
    /\ l_pc \in {"idle", "waiting", "returned"}
    /\ l_requests <= 1
    /\ l_pc = "returned" =>
          /\ l_requests = 1
          /\ IF UsableListing(l_res)
             THEN /\ Len(l_models) = Len(l_res.body.data.models)
                  /\ \A k \in DOMAIN l_models : l_models[k] = l_res.body.data.models[k].model
             ELSE l_models = <<>>

\* C15 witness: the listing held an entry without the key model after a good
\* one, and the empty sequence was returned.
C15_Witness ==
    /\ l_pc = "returned"
    /\ l_res.status = "ok"
    /\ l_res.body.kind = "object"
    /\ "models" \in DOMAIN l_res.body.data
    /\ l_res.body.data.models = << [model |-> <<"llama3">>], [name |-> <<"phi3">>] >>
    /\ l_models = <<>>

====
